---- MODULE Spec2Model ----
(***************************************************************************)
(* Model of indexer.py: a Lucene index over the rows of a TSV file         *)
(* (create_index) and three query operations that read it (search,         *)
(* wildcard_search, smart_search).                                         *)
(*                                                                         *)
(* Text is a sequence of one-character strings.  The index directory is    *)
(* modelled by its commit point: either no commit exists, or one committed *)
(* generation (stored documents plus postings) does.                       *)
(***************************************************************************)
EXTENDS Integers, Sequences, FiniteSets, TLC

\* ------------------------------------------------------------------ bounds
MaxRecords == 2
MaxBuilds == 2
MaxHits == 11

\* ------------------------------------------------------- program constants
SearchLimit == 10
WildcardLimit == 20
FuzzyMaxEdits == 2
FuzzyMinWordLen == 3

\* -------------------------------------------------------------- characters
Upper == <<"A","B","C","D","E","F","G","H","I","J","K","L","M",
           "N","O","P","Q","R","S","T","U","V","W","X","Y","Z">>
LowerL == <<"a","b","c","d","e","f","g","h","i","j","k","l","m",
            "n","o","p","q","r","s","t","u","v","w","x","y","z">>

IsUpper(c) == \E i \in 1..26 : Upper[i] = c
IsLetter(c) == \E i \in 1..26 : Upper[i] = c \/ LowerL[i] = c
IsSpace(c) == c = " "

\* str.lower() / LowerCaseFilter on one character
LowerChar(c) == IF IsUpper(c) THEN LowerL[CHOOSE i \in 1..26 : Upper[i] = c] ELSE c

\* str.lower() / Analyzer.normalize on a text
ToLower(s) == [i \in 1..Len(s) |-> LowerChar(s[i])]

RECURSIVE LStrip(_)
LStrip(s) == IF s # <<>> /\ IsSpace(Head(s)) THEN LStrip(Tail(s)) ELSE s

RECURSIVE RStrip(_)
RStrip(s) ==
    IF s # <<>> /\ IsSpace(s[Len(s)]) THEN RStrip(SubSeq(s, 1, Len(s) - 1)) ELSE s

\* str.strip()
Strip(s) == RStrip(LStrip(s))

\* str.split(): the maximal runs of non-whitespace characters, in order
RECURSIVE SplitWs(_, _, _)
SplitWs(s, cur, acc) ==
    IF s = <<>>
    THEN IF cur = <<>> THEN acc ELSE Append(acc, cur)
    ELSE IF IsSpace(Head(s))
         THEN SplitWs(Tail(s), <<>>, IF cur = <<>> THEN acc ELSE Append(acc, cur))
         ELSE SplitWs(Tail(s), Append(cur, Head(s)), acc)

Split(s) == SplitWs(s, <<>>, <<>>)

\* StandardAnalyzer: split at every non-letter, lower-case each token
\* (no stop words; the alphabet of the model has letters, blank, * + -)
RECURSIVE Tokenize(_, _, _)
Tokenize(s, cur, acc) ==
    IF s = <<>>
    THEN IF cur = <<>> THEN acc ELSE Append(acc, cur)
    ELSE IF IsLetter(Head(s))
         THEN Tokenize(Tail(s), Append(cur, LowerChar(Head(s))), acc)
         ELSE Tokenize(Tail(s), <<>>, IF cur = <<>> THEN acc ELSE Append(acc, cur))

Analyze(s) == Tokenize(s, <<>>, <<>>)

\* ------------------------------------------------------------------ fields
TextFields == {"name", "classification", "description", "description_wiki",
               "discovery_wiki", "classification_wiki"}
ExactFields == {"area", "time_period", "length", "weight", "wingspan",
                "fossil_range_wiki", "source_link"}
Fields == TextFields \cup ExactFields

\* the fields search() sends to a TermQuery
TermQueryFields == {"area", "time_period", "length", "weight", "wingspan"}

\* the fields of smart_search's MultiFieldQueryParser
SmartFields == {"name", "classification", "description", "description_wiki",
                "classification_wiki"}

\* ------------------------------------------------------------- input texts
Empty == <<>>
Blank == <<" ", " ">>
sTriceratops == <<"T","r","i","c","e","r","a","t","o","p","s">>
sTricerRex == <<"T","r","i","c","e","r"," ","r","e","x">>
sRex == <<"R","e","x">>
sRexPadded == <<" ","R","e","x"," ">>
sEurope == <<"E","u","r","o","p","e">>
sLateJurassic == <<"L","a","t","e"," ","J","u","r","a","s","s","i","c">>
sWiki == <<"W","i","k","i">>

\* a TSV row: every column of the header, "" where the row has nothing
Row(name, description, area, time_period, source_link) ==
    [f \in Fields |->
        CASE f = "name" -> name
          [] f = "description" -> description
          [] f = "area" -> area
          [] f = "time_period" -> time_period
          [] f = "source_link" -> source_link
          [] OTHER -> Empty]

RowPool ==
    { Row(sTriceratops, Empty, sEurope, sLateJurassic, sWiki),
      Row(sRexPadded, Empty, sEurope, Empty, Empty),
      Row(Empty, sRex, Empty, Empty, sWiki),
      Row(sTricerRex, Empty, Empty, Empty, Empty),
      Row(Blank, Empty, Empty, Empty, Empty) }

RECURSIVE SeqsUpTo(_, _)
SeqsUpTo(S, n) ==
    IF n = 0 THEN {<<>>}
    ELSE LET shorter == SeqsUpTo(S, n - 1)
         IN shorter \cup {Append(s, x) : s \in {t \in shorter : Len(t) = n - 1}, x \in S}

\* ------------------------------------------------------------ create_index
\* number of occurrences of token t in token sequence toks
Count(toks, t) == Cardinality({i \in 1..Len(toks) : toks[i] = t})

\* add_text_field: TextField(field, val, Store.YES) when val is non-empty
TextFieldTerms(val) == Analyze(val)

\* add_exact_field: StringField(field, val, Store.YES) when val is non-empty
ExactFieldTerms(val) == <<val>>

\* the Document made from one row: stored value and token sequence per field
\* (a field whose stripped value is empty is not added)
MakeDoc(row) ==
    [f \in Fields |->
        LET val == Strip(row[f])
        IN [stored |-> val,
            tokens |-> IF val = <<>> THEN <<>>
                       ELSE IF f \in TextFields THEN TextFieldTerms(val)
                       ELSE ExactFieldTerms(val)]]

\* an index generation under construction or committed:
\*   stored   : docId -> stored field values (docIds are 0 .. maxDoc-1)
\*   postings : set of [field, term, doc, tf]
EmptyIndex == [stored |-> <<>>, postings |-> {}]

DocIds(idx) == 0 .. (Len(idx.stored) - 1)

StoredOf(idx, d) == idx.stored[d + 1]

\* the docId IndexWriter gives the next added document
NextDocIdOffByOne(idx) == Len(idx.stored) + 1
NextDocId(idx) == Len(idx.stored)

\* writer.addDocument(doc), were a document without fields left out
AddDocumentSkippingEmpty(idx, doc) ==
    IF \A f \in Fields : doc[f].tokens = <<>> THEN idx
    ELSE [stored |-> Append(idx.stored, [f \in Fields |-> doc[f].stored]),
          postings |-> idx.postings \cup UNION
            { { [field |-> f, term |-> doc[f].tokens[i], doc |-> Len(idx.stored),
                 tf |-> Count(doc[f].tokens, doc[f].tokens[i])] :
                i \in 1..Len(doc[f].tokens) } : f \in Fields } ]

\* writer.addDocument(doc)
AddDocument(idx, doc) ==
    LET id == NextDocId(idx)
    IN [stored |-> Append(idx.stored, [f \in Fields |-> doc[f].stored]),
        postings |-> idx.postings \cup UNION
            { { [field |-> f, term |-> doc[f].tokens[i], doc |-> id,
                 tf |-> Count(doc[f].tokens, doc[f].tokens[i])] :
                i \in 1..Len(doc[f].tokens) } : f \in Fields } ]

\* ------------------------------------------------------- index statistics
Postings(idx, f, t) == {p \in idx.postings : p.field = f /\ p.term = t}

\* the term dictionary of a field
TermsOf(idx, f) == {p.term : p \in {q \in idx.postings : q.field = f}}

DocsWithTerm(idx, f, t) == {p.doc : p \in Postings(idx, f, t)}

Tf(idx, f, t, d) ==
    LET ps == {p \in Postings(idx, f, t) : p.doc = d}
    IN IF ps = {} THEN 0 ELSE (CHOOSE p \in ps : TRUE).tf

RECURSIVE SumTf(_)
SumTf(ps) ==
    IF ps = {} THEN 0
    ELSE LET p == CHOOSE q \in ps : TRUE IN p.tf + SumTf(ps \ {p})

\* number of tokens of field f in document d (StringField keeps no norms: 1)
FieldLen(idx, f, d) ==
    IF f \in ExactFields THEN 1
    ELSE SumTf({p \in idx.postings : p.field = f /\ p.doc = d})

\* documents that have field f
DocCount(idx, f) == Cardinality({p.doc : p \in {q \in idx.postings : q.field = f}})

SumFieldLen(idx, f) ==
    IF f \in ExactFields THEN DocCount(idx, f)
    ELSE SumTf({p \in idx.postings : p.field = f})

\* BM25Similarity (k1 = 1.2, b = 0.75) in integer arithmetic, scaled by 1000:
\*   tf part  tf / (tf + k1 * (1 - b + b * dl / avgdl)), exact up to rounding;
\*   idf part 1 + (N - df + 0.5) / (df + 0.5), the argument of BM25's
\*            logarithm (the logarithm is monotone and is left out).
TermScore(idx, f, t, d) ==
    LET tf == Tf(idx, f, t, d)
        n == DocCount(idx, f)
        df == Cardinality(DocsWithTerm(idx, f, t))
        dl == FieldLen(idx, f, d)
        sum == SumFieldLen(idx, f)
        tfPart == (20000 * tf * sum) \div (20 * tf * sum + 6 * sum + 18 * dl * n)
        idfPart == (1000 * (2 * n + 2)) \div (2 * df + 1)
    IN (tfPart * idfPart) \div 1000

\* ------------------------------------------------------------ term matching
\* WildcardQuery's automaton: * stands for any run of characters
RECURSIVE GlobMatch(_, _)
GlobMatch(p, s) ==
    IF p = <<>> THEN s = <<>>
    ELSE IF Head(p) = "*"
         THEN GlobMatch(Tail(p), s) \/ (s # <<>> /\ GlobMatch(p, Tail(s)))
         ELSE s # <<>> /\ Head(s) = Head(p) /\ GlobMatch(Tail(p), Tail(s))

Min2(a, b) == IF a < b THEN a ELSE b

\* one row of the edit-distance table of FuzzyQuery's automaton (transpositions
\* are one edit): row i for a[1..i] against every prefix of b, from rows i-1, i-2
RECURSIVE EditRow(_, _, _, _, _, _)
EditRow(a, b, i, prev, prev2, acc) ==
    LET j == Len(acc)
    IN IF j > Len(b) THEN acc
       ELSE LET cost == IF a[i] = b[j] THEN 0 ELSE 1
                base == Min2(Min2(prev[j + 1] + 1, acc[j] + 1), prev[j] + cost)
                cell == IF i > 1 /\ j > 1 /\ a[i] = b[j - 1] /\ a[i - 1] = b[j]
                        THEN Min2(base, prev2[j - 1] + 1)
                        ELSE base
            IN EditRow(a, b, i, prev, prev2, Append(acc, cell))

RECURSIVE EditRows(_, _, _, _, _)
EditRows(a, b, i, prev, prev2) ==
    IF i > Len(a) THEN prev[Len(b) + 1]
    ELSE EditRows(a, b, i + 1, EditRow(a, b, i, prev, prev2, <<i>>), prev)

\* rows are sequences indexed from 1: entry j+1 is the cell of column j
EditDistance(a, b) ==
    LET row0 == [j \in 1..(Len(b) + 1) |-> j - 1]
    IN EditRows(a, b, 1, row0, row0)

\* FuzzyQuery(Term(field, word), 2): the terms it accepts
FuzzyAcceptsOneEdit(word, term) == EditDistance(word, term) <= 1
FuzzyAccepts(word, term) == EditDistance(word, term) <= FuzzyMaxEdits

\* ------------------------------------------------------------------ queries
\* Query objects:
\*   [kind |-> "term", field, term]         TermQuery(Term(field, term))
\*   [kind |-> "wildcard", field, pattern]  WildcardQuery(Term(field, pattern))
\*   [kind |-> "fuzzy", field, term]        FuzzyQuery(Term(field, term), 2)
\*   [kind |-> "bool", clauses]             BooleanQuery of [occur, q] clauses
\*   [kind |-> "boost", q, boost]           BoostQuery(q, boost)
\*   [kind |-> "none"]                      no query (the parser drops it)
\* Hits are functions from the matching docIds to scores (scaled by 1000).
TermQ(f, t) == [kind |-> "term", field |-> f, term |-> t]
WildcardQ(f, p) == [kind |-> "wildcard", field |-> f, pattern |-> p]
FuzzyQ(f, t) == [kind |-> "fuzzy", field |-> f, term |-> t]
BoolQ(cs) == [kind |-> "bool", clauses |-> cs]
BoostQ(q, b) == [kind |-> "boost", q |-> q, boost |-> b]
NoneQ == [kind |-> "none"]
Clause(o, q) == [occur |-> o, q |-> q]

NoHits == [d \in {} |-> 0]

RECURSIVE SumOver(_, _)
SumOver(S, g) ==
    IF S = {} THEN 0
    ELSE LET x == CHOOSE y \in S : TRUE IN g[x] + SumOver(S \ {x}, g)

TermHits(idx, f, t) == [d \in DocsWithTerm(idx, f, t) |-> TermScore(idx, f, t, d)]

\* a multi-term query rewritten with a constant score of 1.0
WildcardHits(idx, f, pattern) ==
    LET terms == {t \in TermsOf(idx, f) : GlobMatch(pattern, t)}
    IN [d \in UNION {DocsWithTerm(idx, f, t) : t \in terms} |-> 1000]

\* each accepted term scores as a term query, boosted by
\* 1 - distance / min(length of the word, length of the term)
FuzzyHits(idx, f, word) ==
    LET terms == {t \in TermsOf(idx, f) : FuzzyAccepts(word, t)}
        Weighted(t, d) ==
            LET m == Min2(Len(word), Len(t))
            IN (TermScore(idx, f, t, d) * (m - EditDistance(word, t))) \div m
    IN [d \in UNION {DocsWithTerm(idx, f, t) : t \in terms} |->
            SumOver(terms, [t \in terms |->
                IF d \in DocsWithTerm(idx, f, t) THEN Weighted(t, d) ELSE 0])]

\* BooleanQuery over evaluated clauses [occur, hits], ignoring MUST_NOT
CombineBoolIgnoringMustNot(children) ==
    LET I == 1..Len(children)
        must == {i \in I : children[i].occur = "MUST"}
        scoring == {i \in I : children[i].occur \in {"MUST", "SHOULD"}}
        matched == {d \in UNION {DOMAIN children[i].hits : i \in scoring} :
                        \A i \in must : d \in DOMAIN children[i].hits}
    IN [d \in matched |->
            SumOver(scoring, [i \in scoring |->
                IF d \in DOMAIN children[i].hits THEN children[i].hits[d] ELSE 0])]

\* BooleanQuery over evaluated clauses [occur, hits]: every MUST clause
\* matches, no MUST_NOT clause matches, and without a MUST clause at least one
\* SHOULD clause matches; the score is the sum of the matching MUST and
\* SHOULD clauses
CombineBool(children) ==
    LET I == 1..Len(children)
        must == {i \in I : children[i].occur = "MUST"}
        mustNot == {i \in I : children[i].occur = "MUST_NOT"}
        scoring == {i \in I : children[i].occur \in {"MUST", "SHOULD"}}
        matched == {d \in UNION {DOMAIN children[i].hits : i \in scoring} :
                        /\ \A i \in must : d \in DOMAIN children[i].hits
                        /\ \A i \in mustNot : d \notin DOMAIN children[i].hits}
    IN [d \in matched |->
            SumOver(scoring, [i \in scoring |->
                IF d \in DOMAIN children[i].hits THEN children[i].hits[d] ELSE 0])]

\* IndexSearcher's evaluation of a query against one generation
RECURSIVE Eval(_, _)
Eval(idx, q) ==
    CASE q.kind = "term" -> TermHits(idx, q.field, q.term)
      [] q.kind = "wildcard" -> WildcardHits(idx, q.field, q.pattern)
      [] q.kind = "fuzzy" -> FuzzyHits(idx, q.field, q.term)
      [] q.kind = "bool" ->
            CombineBool([i \in 1..Len(q.clauses) |->
                [occur |-> q.clauses[i].occur, hits |-> Eval(idx, q.clauses[i].q)]])
      [] q.kind = "boost" ->
            LET h == Eval(idx, q.q) IN [d \in DOMAIN h |-> h[d] * q.boost]
      [] OTHER -> NoHits

\* the best remaining hit: highest score, and among equals the lowest docId
BestHitHighestDocId(hits) ==
    CHOOSE d \in DOMAIN hits :
        \A e \in DOMAIN hits :
            hits[d] > hits[e] \/ (hits[d] = hits[e] /\ d >= e)
BestHit(hits) ==
    CHOOSE d \in DOMAIN hits :
        \A e \in DOMAIN hits :
            hits[d] > hits[e] \/ (hits[d] = hits[e] /\ d <= e)

\* searcher.search(query, n).scoreDocs: the n best hits, best first
RECURSIVE TopDocs(_, _)
TopDocs(hits, n) ==
    IF n = 0 \/ DOMAIN hits = {} THEN <<>>
    ELSE LET d == BestHit(hits)
         IN <<[doc |-> d, score |-> hits[d]]>> \o
            TopDocs([e \in DOMAIN hits \ {d} |-> hits[e]], n - 1)

\* ------------------------------------------------------------- QueryParser
\* The classic query syntax over the model's alphabet: clauses separated by
\* blanks, each an optional + (MUST) or - (MUST_NOT) followed by a term; a
\* term with * is a wildcard term.  Parsing yields [ok, query].
HasStar(s) == \E i \in 1..Len(s) : s[i] = "*"

ClauseOccur(chunk) ==
    IF Head(chunk) = "+" THEN "MUST"
    ELSE IF Head(chunk) = "-" THEN "MUST_NOT"
    ELSE "SHOULD"

ClauseBody(chunk) == IF Head(chunk) \in {"+", "-"} THEN Tail(chunk) ELSE chunk

\* what the grammar rejects: a modifier with no term after it, and a leading
\* wildcard unless setAllowLeadingWildcard(True)
BadChunk(chunk, allowLeading) ==
    LET body == ClauseBody(chunk)
    IN \/ body = <<>>
       \/ Head(body) \in {"+", "-"}
       \/ (Head(body) = "*" /\ ~allowLeading)

NotNone(c) == c.q.kind # "none"

\* the query of one term in one field: wildcard terms are lower-cased
\* (Analyzer.normalize), other terms go through the analyzer and their tokens
\* are OR-ed
FieldQuery(f, body) ==
    IF HasStar(body) THEN WildcardQ(f, ToLower(body))
    ELSE LET toks == Analyze(body)
         IN IF toks = <<>> THEN NoneQ
            ELSE IF Len(toks) = 1 THEN TermQ(f, toks[1])
            ELSE BoolQ([i \in 1..Len(toks) |-> Clause("SHOULD", TermQ(f, toks[i]))])

\* the boosts dictionary of smart_search
Boosts(f) ==
    CASE f = "name" -> 5
      [] f \in {"description", "description_wiki"} -> 2
      [] OTHER -> 1

\* the boost the parser applies to a field: parser.setBoosts(boosts) is
\* commented out, so the dictionary is never handed to the parser
FieldBoost(f) == 1

Boosted(f, q) == IF q.kind = "none" THEN q ELSE BoostQ(q, FieldBoost(f))

\* MultiFieldQueryParser: the term in every field, OR-ed
TermInFields(fields, body) ==
    IF Len(fields) = 1 THEN FieldQuery(fields[1], body)
    ELSE LET cs == SelectSeq([i \in 1..Len(fields) |->
                        Clause("SHOULD", Boosted(fields[i], FieldQuery(fields[i], body)))],
                        NotNone)
         IN IF cs = <<>> THEN NoneQ ELSE BoolQ(cs)

\* parser.parse(text): the default operator is OR
ParseQuery(text, fields, allowLeading) ==
    LET chunks == Split(text)
    IN IF chunks = <<>> \/ \E i \in 1..Len(chunks) : BadChunk(chunks[i], allowLeading)
       THEN [ok |-> FALSE, query |-> NoneQ]
       ELSE [ok |-> TRUE,
             query |-> BoolQ(SelectSeq([i \in 1..Len(chunks) |->
                          Clause(ClauseOccur(chunks[i]),
                                 TermInFields(fields, ClauseBody(chunks[i])))],
                          NotNone))]

\* --------------------------------------------------- the three query bodies
\* Each yields [ok, hits, limit]: the hits of the query and the n handed to
\* searcher.search(query, n); ok is FALSE when the call raises.
Outcome(ok, hits, limit) == [ok |-> ok, hits |-> hits, limit |-> limit]

\* search(query_text, field), lines 86-92
SearchQuery(query_text, field) ==
    IF field \in TermQueryFields
    THEN [ok |-> TRUE, query |-> TermQ(field, query_text)]
    ELSE ParseQuery(query_text, <<field>>, FALSE)

RunSearch(idx, query_text, field) ==
    LET pq == SearchQuery(query_text, field)
    IN IF pq.ok THEN Outcome(TRUE, Eval(idx, pq.query), SearchLimit)
       ELSE Outcome(FALSE, NoHits, 0)

\* wildcard_search(pattern), lines 111-112
RunWildcard(idx, pattern) ==
    Outcome(TRUE, Eval(idx, WildcardQ("name", pattern)), WildcardLimit)

\* smart_search(user_query), lines 131-164
SmartFieldList == <<"name", "classification", "description", "description_wiki",
                    "classification_wiki">>

LongWord(w) == Len(w) > FuzzyMinWordLen

FuzzyClauses(user_query) ==
    LET words == SelectSeq(Split(ToLower(user_query)), LongWord)
    IN [i \in 1..Len(words) |-> Clause("SHOULD", FuzzyQ("name", words[i]))]

RunSmart(idx, user_query) ==
    LET pq == ParseQuery(user_query, SmartFieldList, TRUE)
        final == BoolQ(<<Clause("SHOULD", pq.query),
                         Clause("SHOULD", BoolQ(FuzzyClauses(user_query)))>>)
    IN IF pq.ok THEN Outcome(TRUE, Eval(idx, final), SearchLimit)
       ELSE Outcome(FALSE, NoHits, 0)

\* ------------------------------------------------------------ query inputs
qTriStar == <<"t","r","i","*">>
qTriStarUpper == <<"T","R","I","*">>
qRex == <<"r","e","x">>
qTricerato == <<"t","r","i","c","e","r","a","t","o">>
qTricer == <<"t","r","i","c","e","r">>
qMustRexNotTricer == <<"+","r","e","x"," ","-","t","r","i","c","e","r">>
qMustTricerNotRex == <<"+","t","r","i","c","e","r"," ","-","r","e","x">>

SearchCalls ==
    { <<Empty, "name">>, <<sEurope, "area">>, <<sWiki, "source_link">>,
      <<qMustRexNotTricer, "name">>, <<qMustTricerNotRex, "name">> }

WildcardCalls == {qTriStar, qTriStarUpper, Empty}

SmartCalls == {qRex, qTricerato, Empty}

\* --------------------------------------------------------------------- state
VARIABLES
    tsv,      \* the rows of TSV_FILE, in file order
    dir,      \* INDEX_DIR: [committed, index], the commit point readers open
    writer,   \* create_index in progress: [pc, next, buf, doc_count]
    commits,  \* number of writer.commit() calls so far
    reader    \* one query call: [pc, op, text, field, snap, hits, limit,
              \*   results, error, afterCommit (a commit preceded the call)]

vars == <<tsv, dir, writer, commits, reader>>

NoCommit == [committed |-> FALSE, index |-> EmptyIndex]

IdleWriter == [pc |-> "idle", next |-> 0, buf |-> EmptyIndex, doc_count |-> 0]

IdleReader ==
    [pc |-> "idle", op |-> "none", text |-> <<>>, field |-> "none",
     snap |-> EmptyIndex, hits |-> NoHits, limit |-> 0, results |-> <<>>,
     error |-> "none", afterCommit |-> FALSE]

Init ==
    /\ tsv \in SeqsUpTo(RowPool, MaxRecords)
    /\ dir = NoCommit
    /\ writer = IdleWriter
    /\ commits = 0
    /\ reader = IdleReader

\* ------------------------------------------------------------- create_index
\* shutil.rmtree(INDEX_DIR): every file of the directory is gone
Rmtree(d) == NoCommit

\* IndexWriter(directory, config) with OpenMode.CREATE: starts from nothing,
\* whatever the directory holds; nothing is visible to readers before commit
OpenWriter(d) == EmptyIndex

\* writer.commit(): the writer's documents become the directory's commit point
Commit(d, buf) == [committed |-> TRUE, index |-> buf]

\* lines 29-30
CreateIndexRmtree ==
    /\ writer.pc = "idle"
    /\ commits < MaxBuilds
    /\ dir' = Rmtree(dir)
    /\ writer' = [writer EXCEPT !.pc = "removed"]
    /\ UNCHANGED <<tsv, commits, reader>>

\* lines 32-38
CreateIndexOpenWriter ==
    /\ writer.pc = "removed"
    /\ writer' = [pc |-> "rows", next |-> 1, buf |-> OpenWriter(dir), doc_count |-> 0]
    /\ UNCHANGED <<tsv, dir, commits, reader>>

\* lines 43-71: one iteration of the loop over the rows
CreateIndexAddRow ==
    /\ writer.pc = "rows"
    /\ writer.next <= Len(tsv)
    /\ writer' = [writer EXCEPT
            !.buf = AddDocument(writer.buf, MakeDoc(tsv[writer.next])),
            !.next = writer.next + 1,
            !.doc_count = writer.doc_count + 1]
    /\ UNCHANGED <<tsv, dir, commits, reader>>

\* line 73
CreateIndexCommit ==
    /\ writer.pc = "rows"
    /\ writer.next > Len(tsv)
    /\ dir' = Commit(dir, writer.buf)
    /\ commits' = commits + 1
    /\ writer' = [writer EXCEPT !.pc = "committed"]
    /\ UNCHANGED <<tsv, reader>>

\* lines 74-76
CreateIndexClose ==
    /\ writer.pc = "committed"
    /\ writer' = IdleWriter
    /\ UNCHANGED <<tsv, dir, commits, reader>>

\* ------------------------------------------------------------------ queries
\* DirectoryReader.open(directory): the reader holds the commit point it
\* found for as long as it is open; without a commit point it raises
OpenReader(op, text, field) ==
    /\ reader.pc = "idle"
    /\ reader' =
        IF dir.committed
        THEN [IdleReader EXCEPT !.pc = "open", !.op = op, !.text = text,
                !.field = field, !.snap = dir.index, !.afterCommit = (commits > 0)]
        ELSE [IdleReader EXCEPT !.pc = "failed", !.op = op, !.text = text,
                !.field = field, !.error = "IndexNotFoundException",
                !.afterCommit = (commits > 0)]
    /\ UNCHANGED <<tsv, dir, writer, commits>>

\* lines 81-84
StartSearch == \E c \in SearchCalls : OpenReader("search", c[1], c[2])

\* lines 107-109
StartWildcard == \E p \in WildcardCalls : OpenReader("wildcard", p, "name")

\* lines 126-129
StartSmart == \E q \in SmartCalls : OpenReader("smart", q, "smart")

Finish(out) ==
    reader' = IF out.ok
              THEN [reader EXCEPT !.pc = "scored", !.hits = out.hits,
                                  !.limit = out.limit]
              ELSE [reader EXCEPT !.pc = "failed", !.error = "ParseException"]

\* lines 86-92: the query is built and scored
Search ==
    /\ reader.pc = "open" /\ reader.op = "search"
    /\ Finish(RunSearch(reader.snap, reader.text, reader.field))
    /\ UNCHANGED <<tsv, dir, writer, commits>>

\* lines 111-112: the query is built and scored
WildcardSearch ==
    /\ reader.pc = "open" /\ reader.op = "wildcard"
    /\ Finish(RunWildcard(reader.snap, reader.text))
    /\ UNCHANGED <<tsv, dir, writer, commits>>

\* lines 131-164: the query is built and scored
SmartSearch ==
    /\ reader.pc = "open" /\ reader.op = "smart"
    /\ Finish(RunSmart(reader.snap, reader.text))
    /\ UNCHANGED <<tsv, dir, writer, commits>>

\* results.scoreDocs of searcher.search(query, n), which the caller prints
Collect ==
    /\ reader.pc = "scored"
    /\ reader' = [reader EXCEPT !.pc = "done",
                                !.results = TopDocs(reader.hits, reader.limit)]
    /\ UNCHANGED <<tsv, dir, writer, commits>>

\* reader.close(), and the return to the caller
CloseReader ==
    /\ reader.pc = "done"
    /\ reader' = IdleReader
    /\ UNCHANGED <<tsv, dir, writer, commits>>

\* the exception leaves the call (reader.close() is not reached)
Raise ==
    /\ reader.pc = "failed"
    /\ reader' = IdleReader
    /\ UNCHANGED <<tsv, dir, writer, commits>>

Next ==
    \/ CreateIndexRmtree
    \/ CreateIndexOpenWriter
    \/ CreateIndexAddRow
    \/ CreateIndexCommit
    \/ CreateIndexClose
    \/ StartSearch
    \/ StartWildcard
    \/ StartSmart
    \/ Search
    \/ WildcardSearch
    \/ SmartSearch
    \/ Collect
    \/ CloseReader
    \/ Raise

Spec == Init /\ [][Next]_vars

\* ------------------------------------------------ the sorting of the hits
\* searcher.search(query, n) on its own: any hits, any of the limits
HitSets ==
    UNION { [0..(k - 1) -> {1, 2}] : k \in 0..MaxHits }

Limits == {1, SearchLimit, WildcardLimit}

InitTopDocs ==
    /\ tsv = <<>>
    /\ dir = NoCommit
    /\ writer = IdleWriter
    /\ commits = 0
    /\ \E h \in HitSets, n \in Limits :
          reader = [IdleReader EXCEPT !.pc = "scored", !.op = "search",
                                      !.hits = h, !.limit = n]

NextTopDocs == Collect

SpecTopDocs == InitTopDocs /\ [][NextTopDocs]_vars

\* ------------------------------------------------- what the rows say
\* The rows of the TSV file, read without the index: row i is docId i - 1.
RowValue(i, f) == Strip(tsv[i][f])

RowTokens(i, f) ==
    IF f \in TextFields THEN Analyze(RowValue(i, f))
    ELSE IF RowValue(i, f) = <<>> THEN <<>> ELSE <<RowValue(i, f)>>

HasToken(i, f, t) == \E k \in 1..Len(RowTokens(i, f)) : RowTokens(i, f)[k] = t

StartsWith(t, prefix) ==
    Len(t) >= Len(prefix) /\ SubSeq(t, 1, Len(prefix)) = prefix

ResultDocs == {reader.results[i].doc : i \in 1..Len(reader.results)}

Rank(d) == CHOOSE i \in 1..Len(reader.results) : reader.results[i].doc = d

\* the index the rows describe: docId i - 1 for row i, the stripped values
\* stored, one posting per distinct token of a non-empty field
ExpectedIndex ==
    [stored |-> [i \in 1..Len(tsv) |-> [f \in Fields |-> RowValue(i, f)]],
     postings |-> UNION { UNION { LET toks == RowTokens(i, f)
                                  IN { [field |-> f, term |-> toks[k], doc |-> i - 1,
                                        tf |-> Count(toks, toks[k])] :
                                       k \in 1..Len(toks) } :
                                  f \in Fields } :
                          i \in 1..Len(tsv) }]

\* edit distance at most 2, stated by the edits themselves: one edit deletes,
\* inserts or replaces a character or swaps two neighbours
Remove(s, i) == SubSeq(s, 1, i - 1) \o SubSeq(s, i + 1, Len(s))

Insert(s, i, c) == SubSeq(s, 1, i - 1) \o <<c>> \o SubSeq(s, i, Len(s))

Swap(s, i) == [k \in 1..Len(s) |->
                 IF k = i THEN s[i + 1] ELSE IF k = i + 1 THEN s[i] ELSE s[k]]

\* every text one edit away from s, inserting or replacing with chars only
Neighbours(s, chars) ==
    {Remove(s, i) : i \in 1..Len(s)}
    \cup {[s EXCEPT ![i] = c] : i \in 1..Len(s), c \in chars}
    \cup {Insert(s, i, c) : i \in 1..(Len(s) + 1), c \in chars}
    \cup {Swap(s, i) : i \in 1..(Len(s) - 1)}

CharsOf(s) == {s[i] : i \in 1..Len(s)}

WithinOneEdit(a, b) ==
    \/ a = b
    \/ Len(a) = Len(b) /\ Cardinality({i \in 1..Len(a) : a[i] # b[i]}) = 1
    \/ Len(a) = Len(b) /\ \E i \in 1..(Len(a) - 1) : Swap(a, i) = b
    \/ Len(a) = Len(b) + 1 /\ \E i \in 1..Len(a) : Remove(a, i) = b
    \/ Len(b) = Len(a) + 1 /\ \E i \in 1..Len(b) : Remove(b, i) = a

\* a character that b lacks is never worth inserting on the way from a to b
WithinTwoEdits(a, b) ==
    \/ WithinOneEdit(a, b)
    \/ \E x \in Neighbours(a, CharsOf(b)) : WithinOneEdit(x, b)

\* ------------------------------------------------------------------- claims
\* the query call has ended on an index that was there
ReaderAnswered == reader.pc \in {"done", "failed"} /\ reader.error # "IndexNotFoundException"

\* C1: under any interleaving of a build with the queries, a query that starts
\* once a generation has been committed is never made to fail by a rebuild,
\* and the generation a query reads is a complete one.
C1_QueriesUndisturbedByRebuild ==
    /\ (reader.pc = "failed" /\ reader.error = "IndexNotFoundException")
          => ~reader.afterCommit
    /\ reader.pc \in {"open", "scored", "done"} => reader.snap = ExpectedIndex

\* C2: in every index a build produces or is producing, every docId of a
\* posting is a docId of the stored-values mapping.
C2_PostingsReferToStoredDocs ==
    /\ {p.doc : p \in dir.index.postings} \subseteq DocIds(dir.index)
    /\ {p.doc : p \in writer.buf.postings} \subseteq DocIds(writer.buf)

\* C2 witness: a committed index with a document that has no field at all
\* next to a document that has postings.
C2_Witness ==
    /\ dir.committed
    /\ dir.index.postings # {}
    /\ \E d \in DocIds(dir.index) :
          /\ \A f \in Fields : StoredOf(dir.index, d)[f] = <<>>
          /\ \A p \in dir.index.postings : p.doc # d

\* C3: what every build commits, the first or a later one, is exactly the
\* index the rows describe (docIds 0, 1, 2, ... in input order, the same
\* postings and stored values), with nothing left over from the build before.
C3_RebuildYieldsTheSameIndex ==
    writer.pc = "committed" => dir = [committed |-> TRUE, index |-> ExpectedIndex]

\* C3 witness: the second build over two rows has just committed.
C3_Witness ==
    /\ commits = 2 /\ writer.pc = "committed" /\ Len(tsv) = 2
    /\ dir.committed /\ Len(dir.index.stored) = 2 /\ dir.index.postings # {}

\* C4: the results are at most limit hits, each with its score, in
\* non-increasing score order with equal scores in ascending docId order, and
\* no hit left out is better than one returned.
C4_ResultsSortedAndTruncated ==
    reader.pc = "done" =>
        LET r == reader.results
            h == reader.hits
            Better(d, sd, e, se) == sd > se \/ (sd = se /\ d < e)
        IN /\ Len(r) <= reader.limit
           /\ Len(r) = Min2(reader.limit, Cardinality(DOMAIN h))
           /\ \A i \in 1..Len(r) : r[i].doc \in DOMAIN h /\ r[i].score = h[r[i].doc]
           /\ \A i, j \in 1..Len(r) :
                 i < j => Better(r[i].doc, r[i].score, r[j].doc, r[j].score)
           /\ \A e \in DOMAIN h \ {r[i].doc : i \in 1..Len(r)} :
                 \A i \in 1..Len(r) : Better(r[i].doc, r[i].score, e, h[e])

\* C4 witness: limit 1, the two best hits score the same, the lower docId is
\* the one returned.
C4_Witness ==
    /\ reader.pc = "done" /\ reader.limit = 1
    /\ Cardinality(DOMAIN reader.hits) > SearchLimit
    /\ reader.hits[0] = 1 /\ reader.hits[3] = 2 /\ reader.hits[5] = 2
    /\ \A d \in DOMAIN reader.hits : d < 3 => reader.hits[d] = 1
    /\ reader.results = <<[doc |-> 3, score |-> 2]>>

\* C5: a wildcard query tri*, in any letter case of the pattern, returns
\* exactly the documents with a name term that begins with tri.
C5_WildcardAnyCaseMatchesPrefix ==
    (reader.op = "wildcard" /\ reader.pc = "done" /\ ToLower(reader.text) = qTriStar)
        => ResultDocs = {i - 1 : i \in {k \in 1..Len(tsv) :
                            \E n \in 1..Len(RowTokens(k, "name")) :
                                StartsWith(RowTokens(k, "name")[n], <<"t","r","i">>)}}

\* row i holds token t in field f and nothing in the other searched fields
MatchesOnlyIn(i, f, t) ==
    /\ HasToken(i, f, t)
    /\ \A g \in SmartFields \ {f} : RowTokens(i, g) = <<>>

\* row a's name reads as row b's description, and no other row has text in
\* a searched field (so both fields have the same statistics)
OtherwiseEqual(a, b) ==
    /\ RowTokens(a, "name") = RowTokens(b, "description")
    /\ \A c \in 1..Len(tsv) \ {a, b} :
          \A g \in SmartFields : RowTokens(c, g) = <<>>

\* C6: a document that matches the query text only in name ranks strictly
\* above an otherwise equal document that matches it only in description.
C6_NameMatchOutranksDescriptionMatch ==
    (reader.op = "smart" /\ reader.pc = "done" /\ ~HasStar(reader.text)
        /\ Len(Analyze(reader.text)) = 1)
    => \A a, b \in 1..Len(tsv) :
          ( /\ MatchesOnlyIn(a, "name", Analyze(reader.text)[1])
            /\ MatchesOnlyIn(b, "description", Analyze(reader.text)[1])
            /\ OtherwiseEqual(a, b) )
          => /\ {a - 1, b - 1} \subseteq ResultDocs
             /\ Rank(a - 1) < Rank(b - 1)

\* a query of one lower-case word, long enough to get a fuzzy clause
PlainWord(text) ==
    /\ Len(text) > FuzzyMinWordLen
    /\ \A i \in 1..Len(text) : IsLetter(text[i]) /\ ~IsUpper(text[i])

\* C7: the fuzzy clause smart_search adds for a word (longer than 3) matches
\* a document exactly when one of its name terms is within two edits of the
\* word: for a one-word query the results are the documents with such a name
\* term, together with those that hold the word itself in a searched field.
C7_FuzzyMatchesWithinTwoEdits ==
    (reader.op = "smart" /\ reader.pc = "done" /\ PlainWord(reader.text))
    => ResultDocs =
         {i - 1 : i \in {k \in 1..Len(tsv) :
            \/ \E f \in SmartFields : HasToken(k, f, reader.text)
            \/ \E n \in 1..Len(RowTokens(k, "name")) :
                  WithinTwoEdits(reader.text, RowTokens(k, "name")[n])}}

\* C7 witness: tricerato has found the document named Triceratops (two
\* edits away) and not the one whose name holds tricer (three edits away).
C7_Witness ==
    /\ reader.op = "smart" /\ reader.pc = "done" /\ reader.text = qTricerato
    /\ \E a, b \in 1..Len(tsv) :
          /\ RowTokens(a, "name") = <<ToLower(sTriceratops)>>
          /\ RowTokens(b, "name") = <<qTricer, qRex>>
          /\ a - 1 \in ResultDocs
          /\ b - 1 \notin ResultDocs

\* C8: a query call with empty text on a committed index ends with an empty
\* result sequence and never raises.
C8_EmptyQueryGivesNoResults ==
    (ReaderAnswered /\ reader.text = Empty)
        => reader.pc = "done" /\ reader.results = <<>>

\* the words A and B of the queries +A -B
Words == {qRex, qTricer}

MustMustNot(a, b) == <<"+">> \o a \o <<" ", "-">> \o b

\* C9: the query +A -B returns no document that holds B, and returns every
\* document that holds A and not B.
C9_MustNotExcludes ==
    (reader.op = "search" /\ reader.pc = "done" /\ reader.field = "name")
    => \A a, b \in Words :
          reader.text = MustMustNot(a, b)
          => ResultDocs = {i - 1 : i \in {k \in 1..Len(tsv) :
                              HasToken(k, "name", a) /\ ~HasToken(k, "name", b)}}

\* C9 witness: +rex -tricer has returned the document named Rex and left
\* out the document named Tricer rex.
C9_Witness ==
    /\ reader.op = "search" /\ reader.pc = "done"
    /\ reader.text = qMustRexNotTricer
    /\ \E a, b \in 1..Len(tsv) :
          /\ RowTokens(a, "name") = <<qRex>> /\ a - 1 \in ResultDocs
          /\ RowTokens(b, "name") = <<qTricer, qRex>> /\ b - 1 \notin ResultDocs

\* C10: searching an Exact-policy field with a document's stored value of
\* that field returns the document.
C10_ExactFieldFindsStoredValue ==
    (reader.op = "search" /\ ReaderAnswered /\ reader.field \in ExactFields
        /\ reader.text # Empty)
    => \A i \in 1..Len(tsv) :
          RowValue(i, reader.field) = reader.text
              => reader.pc = "done" /\ (i - 1) \in ResultDocs

====
